---- MODULE Spec2Model ----
(***************************************************************************)
(* Model of src/app.py: a Streamlit page that sends every uploaded image   *)
(* and every page of every uploaded PDF to a generative model              *)
(* (analyze_page), parses the JSON reply and flattens it into table rows.  *)
(*                                                                         *)
(* The Japanese string literals of the source are written in ASCII here:   *)
(*   column names   "ファイル名" FileName, "日付" Date, "仕入先" Supplier,     *)
(*                  "JAN/品番" JanCode, "商品名" ProductName, "数量" Quantity, *)
(*                  "上代" RetailPrice, "掛け率" WholesaleRate,               *)
(*                  "単価(下代)" CostPrice, "金額(行合計)" LineTotal,          *)
(*                  "伝票合計" SlipTotal, "インボイスNo" InvoiceNo             *)
(*   "（明細なし）"   "(no items)"                                            *)
(*   "読み取り失敗"   "read failed"                                           *)
(*   "PDF処理エラー"  "PDF error",  "画像エラー"  "image error"               *)
(***************************************************************************)
EXTENDS Integers, Sequences, FiniteSets, TLC

\* ------------------------------------------------------------------ bounds
\* The total number of units (PDF pages and images; an unreadable or empty
\* file counts as one) of one upload.
MaxUnits == 2

\* ------------------------------------------------------- program constants
max_retries == 3
BackoffStep == 10

\* ------------------------------------------------------------- JSON values
\* What json.loads returns: None, a number, a string, a list or a dict.
None == [t |-> "null"]
Num(n) == [t |-> "num", n |-> n]
Str(s) == [t |-> "str", s |-> s]
Arr(a) == [t |-> "arr", a |-> a]
Obj(o) == [t |-> "obj", o |-> o]

NoKeys == [k \in {} |-> None]

IsList(v) == v.t = "arr"
IsDict(v) == v.t = "obj"

\* Python truthiness, as used by `if result:` and `if items:`.
Truthy(v) ==
  CASE v.t = "null" -> FALSE
    [] v.t = "num"  -> v.n # 0
    [] v.t = "str"  -> v.s # ""
    [] v.t = "arr"  -> Len(v.a) > 0
    [] v.t = "obj"  -> DOMAIN v.o # {}

\* dict.get(key, default)
Get(d, key, default) == IF key \in DOMAIN d.o THEN d.o[key] ELSE default

\* ------------------------------------------------- the model's replies
Item1 == Obj([product_name |-> Str("Widget"), quantity |-> Num(2),
              cost_price |-> Num(100), line_total |-> Num(200)])
Item2 == Obj([jan_code |-> Str("4901"), product_name |-> Str("Gadget")])

ItemLists == {<< >>, <<Item1>>, <<Item1, Item2>>}

ItemsObject(L) == Obj([items |-> Arr(L)])

HeaderOnly == Obj([date |-> Str("2024-05-01"), company_name |-> Str("Acme")])
FullRecord == Obj([date |-> Str("2024-05-01"), company_name |-> Str("Acme"),
                   total_amount |-> Num(200), invoice_number |-> Str("T1"),
                   items |-> Arr(<<Item1>>)])
NullHeader == Obj([date |-> None, items |-> Arr(<<Item2>>)])
BadItems   == Obj([items |-> Arr(<<Item1, Num(7)>>)])

\* The JSON documents the model may answer with.
JsonValues ==
  {None, Num(5), Str("sorry"), Obj(NoKeys), HeaderOnly, FullRecord,
   NullHeader, BadItems, Arr(<<FullRecord>>)}
    \cup {ItemsObject(L) : L \in ItemLists}
    \cup {Arr(L) : L \in ItemLists}

\* An exception message, as the sequence of its words.
RateLimitMsg   == <<"429", "Resource", "exhausted">>
UnavailableMsg == <<"503", "Service", "Unavailable">>
NotFoundMsg    == <<"404", "models/gemini-flash-latest", "is", "not", "found">>
InternalMsg    == <<"500", "Internal", "error">>
\* json.loads names the position of the error in its message.
ExpectingMsg   == <<"Expecting", "value:", "line", "1", "column", "1", "(char", "0)">>
ExtraDataMsg   == <<"Extra", "data:", "line", "1", "column", "430", "(char", "429", ")">>

NoMsg == << >>

\* A reply of generate_content: an exception, or a text.  A text is a JSON
\* document (doc) or something json.loads rejects with message msg,
\* possibly wrapped in a ```json ... ``` fence.
ApiErrors == {[kind |-> "exc", msg |-> m, fenced |-> FALSE, doc |-> None] :
                 m \in {RateLimitMsg, UnavailableMsg, NotFoundMsg, InternalMsg}}
FencedValues == {FullRecord, ItemsObject(<<Item1, Item2>>)}
JsonTexts ==
  {[kind |-> "text", msg |-> NoMsg, fenced |-> FALSE, doc |-> v] : v \in JsonValues}
    \cup {[kind |-> "text", msg |-> NoMsg, fenced |-> TRUE, doc |-> v] :
             v \in FencedValues}
ProseTexts == {[kind |-> "text", msg |-> m, fenced |-> FALSE, doc |-> None] :
                 m \in {ExpectingMsg, ExtraDataMsg}}
ModelResponses == ApiErrors \cup JsonTexts \cup ProseTexts
NoResponse == [kind |-> "none", msg |-> NoMsg, fenced |-> FALSE, doc |-> None]

\* ----------------------------------------------------------- the uploads
PdfType == "application/pdf"
PngType == "image/png"

\* readable: PdfReader(file) / Image.open(file) does not raise.
FileShapes ==
  {[type |-> PdfType, pages |-> n, readable |-> TRUE] : n \in 0..MaxUnits}
    \cup {[type |-> PdfType, pages |-> 0, readable |-> FALSE]}
    \cup {[type |-> PngType, pages |-> 0, readable |-> r] : r \in BOOLEAN}

FileNameAt(i) == "file" \o ToString(i)

MakeFile(i, shape) ==
  [name |-> FileNameAt(i), type |-> shape.type, pages |-> shape.pages,
   readable |-> shape.readable]

UnitsOf(f) == IF f.type = PdfType /\ f.pages > 1 THEN f.pages ELSE 1

RECURSIVE TotalUnits(_)
TotalUnits(fs) ==
  IF fs = << >> THEN 0 ELSE UnitsOf(Head(fs)) + TotalUnits(Tail(fs))

\* `if uploaded_files:` -- the run starts on a non-empty upload only.
Uploads ==
  {[i \in DOMAIN fs |-> MakeFile(i, fs[i])] :
      fs \in {gs \in UNION {[1..n -> FileShapes] : n \in 1..MaxUnits} :
                 TotalUnits(gs) <= MaxUnits}}

\* ------------------------------------------------------------ analyze_page
\* `"429" in error_msg`
Contains(msg, word) == \E i \in DOMAIN msg : msg[i] = word

IsRateLimit(msg) == Contains(msg, "429") \/ Contains(msg, "503")

\* text.replace("```json", "").replace("```", "").strip()
CleanText(text) == [text EXCEPT !.fenced = FALSE]

\* json.loads: the document, or a JSONDecodeError.  A text still inside its
\* fence starts with a backquote and is rejected at character 0.
JsonLoads(text) ==
  IF text.fenced THEN [raised |-> TRUE, msg |-> ExpectingMsg, value |-> None]
  ELSE IF text.msg # NoMsg THEN [raised |-> TRUE, msg |-> text.msg, value |-> None]
  ELSE [raised |-> FALSE, msg |-> NoMsg, value |-> text.doc]

\* The body of the try block for one reply of generate_content.
TryBody(resp) ==
  IF resp.kind = "exc"
  THEN [raised |-> TRUE, msg |-> resp.msg, value |-> None]
  ELSE JsonLoads(CleanText(resp))

\* wait = 10 * (attempt + 1)
BackoffWait(a) == BackoffStep * (a + 1)

CallEvent(a, out) == [e |-> "call", attempt |-> a, msg |-> out.msg, wait |-> 0]
SleepEvent(a) == [e |-> "sleep", attempt |-> a, msg |-> NoMsg, wait |-> BackoffWait(a)]

\* ------------------------------------------------------- result handling
HeaderCols == {"FileName", "Date", "Supplier", "SlipTotal", "InvoiceNo"}
ItemCols == {"JanCode", "ProductName", "Quantity", "RetailPrice", "CostPrice",
             "LineTotal", "WholesaleRate"}

HeaderKey == [Date |-> "date", Supplier |-> "company_name",
              SlipTotal |-> "total_amount", InvoiceNo |-> "invoice_number"]
ItemKey == [JanCode |-> "jan_code", ProductName |-> "product_name",
            Quantity |-> "quantity", RetailPrice |-> "retail_price",
            CostPrice |-> "cost_price", LineTotal |-> "line_total",
            WholesaleRate |-> "wholesale_rate"]

NoItemsText == "(no items)"

\* f"{file_name} (p{page_num+1})"
PageLabel(file_name, page) == file_name \o " (p" \o ToString(page + 1) \o ")"

\* isinstance(result, list): result[0] if len(result) > 0 else None
Unwrap(res) ==
  IF IsList(res) THEN (IF Len(res.a) > 0 THEN res.a[1] ELSE None) ELSE res

header_info(label, res) ==
  [c \in HeaderCols |->
     IF c = "FileName" THEN Str(label) ELSE Get(res, HeaderKey[c], None)]

\* row = header_info.copy(); row.update({... item.get(...) ...})
ItemRow(header, item) ==
  [c \in HeaderCols \cup ItemCols |->
     IF c \in ItemCols THEN Get(item, ItemKey[c], None) ELSE header[c]]

\* row = header_info.copy(); row.update({"ProductName": "(no items)"})
PlaceholderRow(header) ==
  [c \in HeaderCols \cup {"ProductName"} |->
     IF c = "ProductName" THEN Str(NoItemsText) ELSE header[c]]

\* str(e) of the AttributeError / TypeError a value that is no dict raises.
TypeName(v) ==
  CASE v.t = "null" -> "NoneType" [] v.t = "num" -> "int" [] v.t = "str" -> "str"
    [] v.t = "arr" -> "list" [] v.t = "obj" -> "dict"
NoAttribute(v) == "'" \o TypeName(v) \o "' object has no attribute 'get'"
NotIterable(v) == "'" \o TypeName(v) \o "' object is not iterable"

\* for item in items: ... all_rows.append(row) -- the rows appended before
\* item.get raises on an element that is no dict.
RECURSIVE ItemLoop(_, _, _)
ItemLoop(header, items, i) ==
  IF i > Len(items) THEN [rows |-> << >>, raised |-> FALSE, exc |-> ""]
  ELSE IF ~IsDict(items[i])
  THEN [rows |-> << >>, raised |-> TRUE, exc |-> NoAttribute(items[i])]
  ELSE LET rest == ItemLoop(header, items, i + 1)
       IN [rows |-> <<ItemRow(header, items[i])>> \o rest.rows,
           raised |-> rest.raised, exc |-> rest.exc]

\* Iterating a truthy `items` that is no list: the keys of a dict and the
\* characters of a string are strings, a number is not iterable.
IterateItems(header, items) ==
  IF IsList(items) THEN ItemLoop(header, items.a, 1)
  ELSE IF items.t = "num"
  THEN [rows |-> << >>, raised |-> TRUE, exc |-> NotIterable(items)]
  ELSE [rows |-> << >>, raised |-> TRUE, exc |-> NoAttribute(Str("k"))]

\* A mutant of FailedUnit: the failed unit is skipped without an entry.
FailedUnit_Silent(label) ==
  [rows |-> << >>, log |-> << >>, raised |-> FALSE, exc |-> ""]

\* The else branch of `if result:`: one entry in error_log, no row.
FailedUnit(label) ==
  [rows |-> << >>, log |-> <<label \o " - read failed">>,
   raised |-> FALSE, exc |-> ""]

\* The then branch of `if result:`: the header, then a row per item or the
\* placeholder row.  A result that is no dict has no .get.
ParsedUnit(label, r) ==
  IF ~IsDict(r)
  THEN [rows |-> << >>, log |-> << >>, raised |-> TRUE, exc |-> NoAttribute(r)]
  ELSE LET header == header_info(label, r)
           items == Get(r, "items", Arr(<< >>))
       IN IF Truthy(items)
          THEN LET loop == IterateItems(header, items)
               IN [rows |-> loop.rows, log |-> << >>,
                   raised |-> loop.raised, exc |-> loop.exc]
          ELSE [rows |-> <<PlaceholderRow(header)>>, log |-> << >>,
                raised |-> FALSE, exc |-> ""]

\* The handling of analyze_page's result: the rows appended to all_rows, the
\* entries appended to error_log, and the exception that escapes, if any.
HandleResult(label, res) ==
  LET r == Unwrap(res)
  IN IF Truthy(r) THEN ParsedUnit(label, r) ELSE FailedUnit(label)

\* ---------------------------------------------------------- final display
desired_order == <<"FileName", "Date", "Supplier", "JanCode", "ProductName",
                   "Quantity", "RetailPrice", "WholesaleRate", "CostPrice",
                   "LineTotal", "SlipTotal", "InvoiceNo">>

\* A mutant of DfColumns: only the columns with a value that is not null.
DfColumns_NonNull(rows) ==
  {c \in UNION {DOMAIN rows[i] : i \in DOMAIN rows} :
     \E i \in DOMAIN rows : c \in DOMAIN rows[i] /\ rows[i][c] # None}

\* pd.DataFrame(all_rows).columns: every key of every row.
DfColumns(rows) == UNION {DOMAIN rows[i] : i \in DOMAIN rows}

\* [c for c in desired_order if c in df.columns]
FinalColumns(rows) ==
  LET cols == DfColumns(rows)
      Keep(c) == c \in cols
  IN SelectSeq(desired_order, Keep)

VARIABLES
  uploaded_files,  \* the uploaded files, in order
  pc,              \* where the script is
  file_index,      \* index of the current file (from 1)
  num_pages,       \* pages of the current PDF
  page_num,        \* page of the current PDF (from 0, as in the source)
  attempt,         \* analyze_page: the loop variable
  response,        \* analyze_page: the reply of the last generate_content
  events,          \* analyze_page: the model calls and sleeps of this call
  result,          \* what analyze_page returned
  all_rows,        \* the table rows
  error_log,       \* the error entries
  current_step,    \* the progress counter
  submitted,       \* the units handed to analyze_page so far
  not_found_seen,  \* a model-not-found error has been raised in this run
  final_columns,   \* the columns of the displayed table
  shown            \* "none", "table" (dataframe + CSV) or "error"

vars == <<uploaded_files, pc, file_index, num_pages, page_num, attempt,
          response, events, result, all_rows, error_log, current_step,
          submitted, not_found_seen, final_columns, shown>>

\* ------------------------------------------------------------------- state
Init ==
  /\ uploaded_files \in Uploads
  /\ pc = "file"
  /\ file_index = 1
  /\ num_pages = 0
  /\ page_num = 0
  /\ attempt = 0
  /\ response = NoResponse
  /\ events = << >>
  /\ result = None
  /\ all_rows = << >>
  /\ error_log = << >>
  /\ current_step = 0
  /\ submitted = << >>
  /\ not_found_seen = FALSE
  /\ final_columns = << >>
  /\ shown = "none"

file == uploaded_files[file_index]
file_name == file.name
mime_type == IF file.type = PdfType THEN PdfType ELSE "image"

\* The call analyze_page(...): its locals start afresh.
EnterAnalyzePage ==
  /\ attempt' = 0
  /\ response' = NoResponse
  /\ events' = << >>
  /\ submitted' = Append(submitted,
                         [file |-> file_index,
                          page |-> IF mime_type = PdfType THEN page_num + 1 ELSE 0,
                          mime |-> mime_type])

LeaveLocals == UNCHANGED <<attempt, response, events, submitted>>

\* PdfReader(file); num_pages = len(pdf_reader.pages) -- or the except branch
\* of the PDF's try block.
OpenPdf ==
  /\ pc = "file"
  /\ mime_type = PdfType
  /\ IF file.readable
     THEN /\ num_pages' = file.pages
          /\ page_num' = 0
          /\ pc' = "page"
          /\ error_log' = error_log
     ELSE /\ error_log' = Append(error_log,
                                 file_name \o " - PDF error: EOF marker not found")
          /\ pc' = "progress"
          /\ UNCHANGED <<num_pages, page_num>>
  /\ LeaveLocals
  /\ UNCHANGED <<uploaded_files, file_index, result, all_rows, current_step,
                 not_found_seen, final_columns, shown>>

\* One turn of `for page_num in range(num_pages)` up to the call of
\* analyze_page on the one-page PDF, or the end of the loop.
SplitPage ==
  /\ pc = "page"
  /\ IF page_num < num_pages
     THEN /\ EnterAnalyzePage
          /\ pc' = "attempt"
     ELSE /\ LeaveLocals
          /\ pc' = "progress"
  /\ UNCHANGED <<uploaded_files, file_index, num_pages, page_num, result,
                 all_rows, error_log, current_step, not_found_seen,
                 final_columns, shown>>

\* Image.open(file) and the call of analyze_page, or the except branch.
OpenImage ==
  /\ pc = "file"
  /\ mime_type = "image"
  /\ IF file.readable
     THEN /\ EnterAnalyzePage
          /\ pc' = "attempt"
          /\ error_log' = error_log
     ELSE /\ LeaveLocals
          /\ error_log' = Append(error_log,
                                 file_name \o " - image error: cannot identify image file")
          /\ pc' = "progress"
  /\ UNCHANGED <<uploaded_files, file_index, num_pages, page_num, result,
                 all_rows, current_step, not_found_seen, final_columns, shown>>

\* A mutant of AfterTry: every failed attempt is followed by another one.
AfterTry_RetryAll(out) == IF ~out.raised THEN "return" ELSE "sleep"

\* What one turn of the retry loop does with the outcome of its try block:
\* return the value, sleep and go on, or return None.
AfterTry(out) ==
  IF ~out.raised THEN "return"
  ELSE IF IsRateLimit(out.msg) THEN "sleep"
  ELSE "give_up"

\* A mutant of EventsAfter: the retry is made without a backoff sleep.
EventsAfter_NoSleep(ev, a, out) == Append(ev, CallEvent(a, out))

\* The model calls and sleeps after this turn.
EventsAfter(ev, a, out) ==
  IF AfterTry(out) = "sleep"
  THEN ev \o <<CallEvent(a, out), SleepEvent(a)>>
  ELSE Append(ev, CallEvent(a, out))

\* One turn of `for attempt in range(max_retries)`: the model call, the
\* parse, and the except branch with its sleep.
Attempt ==
  /\ pc = "attempt"
  /\ \E resp \in ModelResponses :
       LET out == TryBody(resp)
           todo == AfterTry(out)
       IN /\ response' = resp
          /\ not_found_seen' = (not_found_seen \/ resp.msg = NotFoundMsg)
          /\ events' = EventsAfter(events, attempt, out)
          /\ CASE todo = "return" ->
                    /\ result' = out.value
                    /\ attempt' = attempt
                    /\ pc' = "handle"
               [] todo = "sleep" ->
                    /\ attempt' = attempt + 1
                    /\ IF attempt + 1 < max_retries
                       THEN pc' = "attempt" /\ result' = result
                       ELSE pc' = "handle" /\ result' = None
               [] todo = "give_up" ->
                    /\ result' = None
                    /\ attempt' = attempt
                    /\ pc' = "handle"
  /\ UNCHANGED <<uploaded_files, file_index, num_pages, page_num, all_rows,
                 error_log, current_step, submitted, final_columns, shown>>

\* The handling of one PDF page's result; an exception leaves the page loop
\* for the except branch of the PDF's try block.
HandlePdfPage ==
  /\ pc = "handle"
  /\ mime_type = PdfType
  /\ LET h == HandleResult(PageLabel(file_name, page_num), result)
     IN /\ all_rows' = all_rows \o h.rows
        /\ IF h.raised
           THEN /\ error_log' = Append(error_log,
                                       file_name \o " - PDF error: " \o h.exc)
                /\ page_num' = page_num
                /\ pc' = "progress"
           ELSE /\ error_log' = error_log \o h.log
                /\ page_num' = page_num + 1
                /\ pc' = "page"
  /\ attempt' = 0
  /\ response' = NoResponse
  /\ events' = << >>
  /\ UNCHANGED <<uploaded_files, file_index, num_pages, result, current_step,
                 submitted, not_found_seen, final_columns, shown>>

\* The handling of an image's result, with its except branch.
HandleImage ==
  /\ pc = "handle"
  /\ mime_type = "image"
  /\ LET h == HandleResult(file_name, result)
     IN /\ all_rows' = all_rows \o h.rows
        /\ error_log' = IF h.raised
                        THEN Append(error_log,
                                    file_name \o " - image error: " \o h.exc)
                        ELSE error_log \o h.log
  /\ pc' = "progress"
  /\ attempt' = 0
  /\ response' = NoResponse
  /\ events' = << >>
  /\ UNCHANGED <<uploaded_files, file_index, num_pages, page_num, result,
                 current_step, submitted, not_found_seen, final_columns, shown>>

\* current_step += 1 and the next turn of `for file_index, file in ...`.
Progress ==
  /\ pc = "progress"
  /\ current_step' = current_step + 1
  /\ IF file_index < Len(uploaded_files)
     THEN file_index' = file_index + 1 /\ pc' = "file"
     ELSE file_index' = file_index /\ pc' = "show"
  /\ LeaveLocals
  /\ UNCHANGED <<uploaded_files, num_pages, page_num, result, all_rows,
                 error_log, not_found_seen, final_columns, shown>>

\* The result display: the table with its columns, or the error message.
ShowResults ==
  /\ pc = "show"
  /\ IF all_rows # << >>
     THEN final_columns' = FinalColumns(all_rows) /\ shown' = "table"
     ELSE final_columns' = final_columns /\ shown' = "error"
  /\ pc' = "done"
  /\ LeaveLocals
  /\ UNCHANGED <<uploaded_files, file_index, num_pages, page_num, result,
                 all_rows, error_log, current_step, not_found_seen>>

Next ==
  \/ OpenPdf
  \/ SplitPage
  \/ OpenImage
  \/ Attempt
  \/ HandlePdfPage
  \/ HandleImage
  \/ Progress
  \/ ShowResults

Spec == Init /\ [][Next]_vars

\* ------------------------------------------------------------------ claims
Range(q) == {q[i] : i \in DOMAIN q}

IsCall(ev) == ev.e = "call"
IsSleep(ev) == ev.e = "sleep"
Calls == SelectSeq(events, IsCall)
Sleeps == SelectSeq(events, IsSleep)

\* The unit analyze_page was last called on, and the label the source gives it.
LastUnit == submitted[Len(submitted)]
LabelOf(u) ==
  IF u.page = 0 THEN uploaded_files[u.file].name
  ELSE uploaded_files[u.file].name \o " (p" \o ToString(u.page) \o ")"

\* The rows the step appends to all_rows.
AppendedRows == SubSeq(all_rows', Len(all_rows) + 1, Len(all_rows'))

\* The model raised, or answered with a text that is not JSON.
ModelRaised == response.kind = "exc"
Unparsable == response.kind = "text" /\ response.msg # NoMsg
ParsedJson == response.kind = "text" /\ response.msg = NoMsg

\* An exception of the rate-limit class: 429 or 503.
RateLimitErrors == {RateLimitMsg, UnavailableMsg}

\* An object of the expected shape: no items, or a list of objects.
ItemObjects(v) ==
  LET items == Get(v, "items", Arr(<< >>))
  IN IF IsList(items) /\ \A i \in DOMAIN items.a : IsDict(items.a[i])
     THEN items.a ELSE << >>
ExpectedShape(v) ==
  /\ IsDict(v)
  /\ LET items == Get(v, "items", Arr(<< >>))
     IN \/ items = None
        \/ IsList(items) /\ \A i \in DOMAIN items.a : IsDict(items.a[i])

\* C1: whenever analyze_page returns a parsed JSON object (the empty object
\* included), handling it appends one placeholder row when the object has no
\* items, M rows when it has M items, all of them carrying the unit's label,
\* and nothing to error_log.
C1_RowsPerParsedObject ==
  [][(pc = "handle" /\ ParsedJson /\ ExpectedShape(result)) =>
       LET M == Len(ItemObjects(result))
       IN /\ Len(AppendedRows) = (IF M = 0 THEN 1 ELSE M)
          /\ M = 0 => AppendedRows[1]["ProductName"] = Str(NoItemsText)
          /\ \A i \in DOMAIN AppendedRows :
               AppendedRows[i]["FileName"] = Str(LabelOf(LastUnit))
          /\ error_log' = error_log]_vars

\* C2: a unit whose extraction fails (the model raised and no retry recovered
\* it, or its text is not JSON) adds no row to all_rows and exactly one entry
\* to error_log, which names the unit's label.
C2_FailedUnitAccounting ==
  [][(pc = "handle" /\ (ModelRaised \/ Unparsable)) =>
       /\ all_rows' = all_rows
       /\ error_log' = Append(error_log, LabelOf(LastUnit) \o " - read failed")]_vars

\* C2 witness: the only unit submitted so far failed with a model-not-found
\* error and has been handled: no row, one entry naming page 1 of file1.
C2_Witness ==
  /\ pc = "page"
  /\ Len(submitted) = 1
  /\ not_found_seen
  /\ all_rows = << >>
  /\ error_log = <<"file1 (p1) - read failed">>

\* The units the upload holds: every page of every readable PDF, every
\* readable image.
UnitsOfFile(i) ==
  LET f == uploaded_files[i]
  IN IF ~f.readable THEN << >>
     ELSE IF f.type = PdfType
     THEN [n \in 1..f.pages |-> [file |-> i, page |-> n, mime |-> PdfType]]
     ELSE <<[file |-> i, page |-> 0, mime |-> "image"]>>

SubmittedOfFile(i) ==
  LET OfFile(u) == u.file = i IN SelectSeq(submitted, OfFile)

\* C3: no failure of one unit stops the rest of the batch: when the run has
\* reached the result display, every page of every readable PDF and every
\* readable image has been submitted to analyze_page, whatever the model
\* answered for the units before it.
C3_FailureIsolation ==
  pc = "done" =>
    \A i \in DOMAIN uploaded_files :
      Range(UnitsOfFile(i)) \subseteq Range(submitted)

\* C4: rate-limit errors on attempts 1 and 2 and parseable JSON on attempt 3:
\* analyze_page returns the parsed document, and two backoff sleeps were
\* taken, each between a failed attempt and the next one.
C4_RetryRecovers ==
  (/\ pc = "handle"
   /\ Len(Calls) = 3
   /\ Calls[1].msg \in RateLimitErrors
   /\ Calls[2].msg \in RateLimitErrors
   /\ ParsedJson) =>
     /\ result = response.doc
     /\ Len(Sleeps) >= 2
     /\ Len(events) = 5
     /\ IsCall(events[1]) /\ IsSleep(events[2])
     /\ IsCall(events[3]) /\ IsSleep(events[4])
     /\ IsCall(events[5])
     /\ events[2].wait > 0 /\ events[4].wait > 0

C4_Witness ==
  /\ pc = "handle"
  /\ Len(Calls) = 3
  /\ Calls[1].msg = RateLimitMsg
  /\ Calls[2].msg = UnavailableMsg
  /\ response.kind = "text" /\ response.fenced
  /\ result = FullRecord
  /\ Len(Sleeps) = 2

\* A failure that is neither a rate limit nor a missing model: a message
\* with neither 429 nor 503 in it, or a text that is not JSON.
OtherFailure ==
  \/ ModelRaised /\ response.msg = InternalMsg
  \/ Unparsable

\* C5 as claimed: analyze_page reports the failure of such a unit only after
\* all 3 attempts have been used.
C5_OtherFailuresRetried ==
  (pc = "handle" /\ OtherFailure) => Len(Calls) = max_retries

HasWord(msg, w) == w \in Range(msg)
NoRateCode(msg) == ~HasWord(msg, "429") /\ ~HasWord(msg, "503")

\* C5 as amended: an attempt whose exception (a JSON parse error included)
\* has neither 429 nor 503 in its message is the last one: analyze_page
\* returns None at once, with no sleep and no further model call; only an
\* attempt whose message has 429 or 503 in it is followed by a sleep.
C5_OtherFailuresReturnAtOnce ==
  \A i \in DOMAIN events :
    (IsCall(events[i]) /\ events[i].msg # NoMsg) =>
      IF NoRateCode(events[i].msg)
      THEN i = Len(events) /\ pc = "handle" /\ result = None
      ELSE i < Len(events) /\ IsSleep(events[i + 1])

C5_Witness ==
  /\ pc = "handle"
  /\ Unparsable
  /\ events = <<CallEvent(0, [msg |-> ExpectingMsg])>>
  /\ result = None

\* C6: after a model-not-found error the batch is halted: no later page or
\* file is submitted to analyze_page.
C6_ConfigErrorHaltsBatch ==
  [][not_found_seen => submitted' = submitted]_vars

\* C7: at the result display, the units submitted for a readable PDF of N
\* pages are its pages 1..N, once each and in order, a readable image has
\* been submitted once, and every row carries the label of a submitted unit.
C7_PageTiling ==
  pc = "done" =>
    /\ \A i \in DOMAIN uploaded_files : SubmittedOfFile(i) = UnitsOfFile(i)
    /\ \A r \in DOMAIN all_rows :
         \E u \in Range(submitted) : all_rows[r]["FileName"] = Str(LabelOf(u))

\* C8: a reply that is the bare array L of line items makes the handler
\* append the rows it appends for the object {"items": L}.
C8_ShapeInvariance ==
  [][(pc = "handle" /\ \E L \in ItemLists : result = Arr(L)) =>
       AppendedRows = HandleResult(LabelOf(LastUnit), ItemsObject(result.a)).rows]_vars

HasValue(c) == \E r \in DOMAIN all_rows :
                 c \in DOMAIN all_rows[r] /\ all_rows[r][c] # None
HasKey(c) == \E r \in DOMAIN all_rows : c \in DOMAIN all_rows[r]

IndexIn(q, x) == CHOOSE i \in DOMAIN q : q[i] = x
InPreferredOrder(cols) ==
  /\ Range(cols) \subseteq Range(desired_order)
  /\ \A i, j \in DOMAIN cols :
       i < j => IndexIn(desired_order, cols[i]) < IndexIn(desired_order, cols[j])

C10_BoundedAttempts ==
  pc = "handle" =>
    /\ Len(Calls) <= max_retries
    /\ (Len(Calls) = max_retries
         /\ \A i \in DOMAIN Calls : Calls[i].msg \in RateLimitErrors)
        => result = None
    /\ \A i \in DOMAIN events :
         IsSleep(events[i]) => i < Len(events) /\ IsCall(events[i + 1])

====
